---- MODULE Spec2Model ----
(***************************************************************************)
(* Model of the vault engine of main.py: encrypt_file, decrypt_file,       *)
(* find_file_in_metadata, load_metadata / save_metadata, get_sha256,       *)
(* generate_key_from_password and shred_file.                              *)
(*                                                                         *)
(* Text is a sequence of one-character strings, file contents are          *)
(* sequences of byte values.  SHA-256 and Fernet are the trusted           *)
(* primitives: the digest is modelled as a collision-free tag of its       *)
(* input, a Fernet token as the pair (key, plaintext) that only the same   *)
(* key opens.                                                              *)
(***************************************************************************)
EXTENDS Integers, Sequences, FiniteSets, TLC

(* ------------------------------ bounds --------------------------------- *)
\* number of times the wall clock advances by one second
MaxTicks == 1
\* number of encrypt_file invocations in one behaviour
MaxCalls == 2
\* number of writes to source files by other actors
MaxWrites == 1

\* first second of the modelled window (mm:ss = 00:59, so that one tick
\* carries into the minutes field)
StartClock == 59

Procs == {1, 2}
Names == {<<"a">>, <<"b">>}
OutDirs == {"o1", "o2"}
Passwords == {"w1", "w2"}
Bytes == {65, 255}
Plain == {<<65>>, <<255>>}

(* ------------------------------ text ----------------------------------- *)
\* code points of the characters that occur in version identifiers
Ord(c) ==
  CASE c = "0" -> 48 [] c = "1" -> 49 [] c = "2" -> 50 [] c = "3" -> 51
    [] c = "4" -> 52 [] c = "5" -> 53 [] c = "6" -> 54 [] c = "7" -> 55
    [] c = "8" -> 56 [] c = "9" -> 57 [] c = "." -> 46 [] c = "_" -> 95
    [] c = "a" -> 97 [] c = "b" -> 98 [] c = "c" -> 99 [] c = "e" -> 101
    [] c = "n" -> 110

Digit(n) == <<"0", "1", "2", "3", "4", "5", "6", "7", "8", "9">>[n + 1]

\* Python's str comparison: s < t by code points, a proper prefix is smaller
RECURSIVE StrLess(_, _)
StrLess(s, t) ==
  IF t = <<>> THEN FALSE
  ELSE IF s = <<>> THEN TRUE
  ELSE IF Ord(Head(s)) < Ord(Head(t)) THEN TRUE
  ELSE IF Ord(Head(s)) > Ord(Head(t)) THEN FALSE
  ELSE StrLess(Tail(s), Tail(t))

\* strftime("%Y%m%d_%H%M%S") of second t of the window; the date and hour
\* fields are the same for every second of the window and are left out, the
\* zero-padded minute and second fields remain
Strftime(t) ==
  <<Digit((t \div 60) \div 10), Digit((t \div 60) % 10),
    Digit((t % 60) \div 10), Digit((t % 60) % 10)>>

\* datetime.now().isoformat()
IsoFormat(t) == <<"iso", t>>

Clocks == StartClock .. (StartClock + MaxTicks)
Stamps == {Strftime(t) : t \in Clocks}

(* ------------------------------ paths ---------------------------------- *)
\* os.path.join(dir, name) and os.path.basename
Join(dir, base) == [dir |-> dir, base |-> base]
Basename(path) == path.base

\* a variant that leaves the timestamp out of the name
EncFileNameNoStamp(name, stamp) == name \o <<".", "e", "n", "c">>

\* f"{file_name}_{timestamp}.enc"
EncFileName(name, stamp) == name \o <<"_">> \o stamp \o <<".", "e", "n", "c">>

\* two files of the same name in different folders, and one of another name
SrcPaths == {Join("d1", <<"a">>), Join("d2", <<"a">>), Join("d1", <<"b">>)}
EncPaths == {Join(o, EncFileName(n, s)) : o \in OutDirs, n \in Names, s \in Stamps}

(* --------------------------- primitives -------------------------------- *)
\* hashlib.sha256(x).hexdigest(): collision-free on the modelled inputs
Sha256(x) == <<"sha256", x>>

\* generate_key_from_password
GenerateKey(password) == <<"b64", Sha256(password)>>

\* file contents
Absent == [st |-> "absent", data |-> <<>>]
File(bytes) == [st |-> "file", data |-> bytes]

\* contents of a ciphertext file: absent, empty (opened for writing, nothing
\* written yet) or a Fernet token
NoKey == <<"b64", <<"sha256", "">>>>
EncAbsent == [st |-> "absent", key |-> NoKey, pt |-> <<>>]
EncEmpty == [st |-> "empty", key |-> NoKey, pt |-> <<>>]
\* Fernet(key).encrypt(data)
FernetEncrypt(key, data) == [st |-> "token", key |-> key, pt |-> data]
\* a variant that does not authenticate the key
FernetOpensAnyKey(key, content) == content.st = "token"

\* Fernet(key).decrypt(content) succeeds iff content is a token made with key
FernetOpens(key, content) == content.st = "token" /\ content.key = key

\* os.urandom(length): any byte string of that length
RECURSIVE Urandom(_)
Urandom(length) ==
  IF length = 0 THEN {<<>>}
  ELSE {<<b>> \o r : b \in Bytes, r \in Urandom(length - 1)}

\* bytes.decode(errors='ignore'): bytes that are not valid UTF-8 are dropped
IsAscii(b) == b < 128
Decode(bytes) == SelectSeq(bytes, IsAscii)

(* ----------------------------- metadata -------------------------------- *)
\* The metadata document is a dict of dicts; both keep insertion order.  A
\* dict is a sequence of <<key, value>> pairs with distinct keys.
Keys(d) == [i \in 1 .. Len(d) |-> d[i][1]]
HasKey(d, k) == \E i \in 1 .. Len(d) : d[i][1] = k
Get(d, k) == d[CHOOSE i \in 1 .. Len(d) : d[i][1] = k][2]
\* d[k] = v: an existing key keeps its position, a new key goes last
Put(d, k, v) ==
  IF HasKey(d, k)
  THEN [i \in 1 .. Len(d) |-> IF d[i][1] = k THEN <<k, v>> ELSE d[i]]
  ELSE Append(d, <<k, v>>)

\* sorted(keys): insertion sort by StrLess
RECURSIVE InsertSorted(_, _)
InsertSorted(s, k) ==
  IF s = <<>> THEN <<k>>
  ELSE IF StrLess(k, Head(s)) THEN <<k>> \o s
  ELSE <<Head(s)>> \o InsertSorted(Tail(s), k)

RECURSIVE Sorted(_)
Sorted(s) == IF s = <<>> THEN <<>> ELSE InsertSorted(Sorted(Tail(s)), Head(s))

\* the persisted metadata.json: a complete document, or a file that was
\* opened for writing and does not hold a complete document
Document(doc) == [torn |-> FALSE, doc |-> doc]
Torn == [torn |-> TRUE, doc |-> <<>>]

VARIABLES
  clock,      \* wall clock, in seconds
  srcFiles,   \* source files: path -> contents
  encFiles,   \* ciphertext files: path -> contents
  metaFile,   \* metadata.json
  pc,         \* position of each encrypt_file invocation
  arg,        \* arguments of each invocation
  data,       \* bytes read from the source (line 84)
  stamp,      \* timestamp (line 88)
  fileHash,   \* file_hash (line 95)
  metadata,   \* the in-memory metadata (lines 96-103)
  progress,   \* what each invocation has completed so far
  dec,        \* what the decrypt_file call that has just returned did
  calls,      \* number of encrypt_file invocations so far
  writes,     \* number of writes by other actors so far
  history     \* every version record an invocation has persisted

vars == <<clock, srcFiles, encFiles, metaFile, pc, arg, data, stamp,
          fileHash, metadata, progress, dec, calls, writes, history>>

NoArg == [path |-> Join("d1", <<"a">>), password |-> "w1", out |-> "o1", shred |-> FALSE]
NoDec == [kind |-> "none", name |-> <<>>, password |-> "", asked |-> <<>>,
          version |-> <<>>, preview |-> FALSE, text |-> <<>>, out |-> Absent]

\* locals of an invocation
FileName(p) == Basename(arg[p].path)
EncPath(p) == Join(arg[p].out, EncFileName(FileName(p), stamp[p]))

Init ==
  /\ clock = StartClock
  /\ srcFiles = [s \in SrcPaths |-> IF s.dir = "d1" THEN File(<<65>>) ELSE File(<<255>>)]
  /\ encFiles = [e \in EncPaths |-> EncAbsent]
  /\ metaFile = Document(<<>>)
  /\ pc = [p \in Procs |-> "idle"]
  /\ arg = [p \in Procs |-> NoArg]
  /\ data = [p \in Procs |-> <<>>]
  /\ stamp = [p \in Procs |-> <<>>]
  /\ fileHash = [p \in Procs |-> Sha256(<<>>)]
  /\ metadata = [p \in Procs |-> <<>>]
  /\ progress = [p \in Procs |-> {}]
  /\ dec = NoDec
  /\ calls = 0
  /\ writes = 0
  /\ history = {}

(* --------------------------- encrypt_file ------------------------------ *)
\* no decrypt_file call is returning: decrypt_file is one step followed by
\* its return, and nothing else happens between the two
Quiet == dec = NoDec

\* the step of an invocation: it moves to label
Goto(p, label) == Quiet /\ pc' = [pc EXCEPT ![p] = label] /\ UNCHANGED dec

\* lines 79-90: the source is read and encrypted, the timestamp taken
EncRead(p, path, password, out, shred) ==
  /\ pc[p] = "idle"
  /\ calls < MaxCalls
  /\ srcFiles[path].st = "file"
  /\ calls' = calls + 1
  /\ arg' = [arg EXCEPT ![p] = [path |-> path, password |-> password,
                                out |-> out, shred |-> shred]]
  /\ data' = [data EXCEPT ![p] = srcFiles[path].data]
  /\ stamp' = [stamp EXCEPT ![p] = Strftime(clock)]
  /\ Goto(p, "write")
  /\ UNCHANGED <<clock, srcFiles, encFiles, metaFile, fileHash,
                 metadata, progress, writes, history>>

\* line 83: open(file_path, 'rb') raises, nothing has happened yet
EncReadFails(p, path, password, out, shred) ==
  /\ pc[p] = "idle"
  /\ calls < MaxCalls
  /\ srcFiles[path].st = "absent"
  /\ calls' = calls + 1
  /\ arg' = [arg EXCEPT ![p] = [path |-> path, password |-> password,
                                out |-> out, shred |-> shred]]
  /\ Goto(p, "failed")
  /\ UNCHANGED <<clock, srcFiles, encFiles, metaFile, data, stamp,
                 fileHash, metadata, progress, writes, history>>

\* lines 92-93: the token is written to enc_file_path
EncWrite(p) ==
  /\ pc[p] = "write"
  /\ encFiles' = [encFiles EXCEPT ![EncPath(p)] =
                    FernetEncrypt(GenerateKey(arg[p].password), data[p])]
  /\ progress' = [progress EXCEPT ![p] = @ \cup {"wrote"}]
  /\ Goto(p, "hash")
  /\ UNCHANGED <<clock, srcFiles, metaFile, arg, data, stamp,
                 fileHash, metadata, calls, writes, history>>

\* line 92 raises (the destination cannot be opened), or line 93 raises
\* after the file was opened, which leaves it empty
EncWriteFails(p) ==
  /\ pc[p] = "write"
  /\ \/ UNCHANGED encFiles
     \/ encFiles' = [encFiles EXCEPT ![EncPath(p)] = EncEmpty]
  /\ Goto(p, "failed")
  /\ UNCHANGED <<clock, srcFiles, metaFile, arg, data, stamp,
                 fileHash, metadata, progress, calls, writes, history>>

\* get_sha256(filepath): the digest of what the file holds when it is read
GetSha256(content) == Sha256(content.data)

\* line 95: file_hash = get_sha256(file_path)
EncHash(p) ==
  /\ pc[p] = "hash"
  /\ srcFiles[arg[p].path].st = "file"
  /\ fileHash' = [fileHash EXCEPT ![p] = GetSha256(srcFiles[arg[p].path])]
  /\ Goto(p, "load")
  /\ UNCHANGED <<clock, srcFiles, encFiles, metaFile, arg, data,
                 stamp, metadata, progress, calls, writes, history>>

\* line 95 raises: the source is gone
EncHashFails(p) ==
  /\ pc[p] = "hash"
  /\ srcFiles[arg[p].path].st = "absent"
  /\ Goto(p, "failed")
  /\ UNCHANGED <<clock, srcFiles, encFiles, metaFile, arg, data,
                 stamp, fileHash, metadata, progress, calls, writes,
                 history>>

\* the version record of lines 99-103
Record(p) ==
  [encrypted_file |-> EncPath(p), sha256 |-> fileHash[p],
   timestamp |-> IsoFormat(clock)]

\* lines 97-103 applied to a loaded document
RecordVersion(doc, name, version, record) ==
  LET withName == IF HasKey(doc, name) THEN doc ELSE Put(doc, name, <<>>)
  IN  Put(withName, name, Put(Get(withName, name), version, record))

\* lines 96-103: load_metadata and the insertion of the new record
EncLoad(p) ==
  /\ pc[p] = "load"
  /\ ~metaFile.torn
  /\ metadata' = [metadata EXCEPT ![p] =
                    RecordVersion(metaFile.doc, FileName(p), stamp[p], Record(p))]
  /\ Goto(p, "save")
  /\ UNCHANGED <<clock, srcFiles, encFiles, metaFile, arg, data,
                 stamp, fileHash, progress, calls, writes, history>>

\* line 58 raises: json.load on a file that holds no complete document
EncLoadFails(p) ==
  /\ pc[p] = "load"
  /\ metaFile.torn
  /\ Goto(p, "failed")
  /\ UNCHANGED <<clock, srcFiles, encFiles, metaFile, arg, data,
                 stamp, fileHash, metadata, progress, calls, writes,
                 history>>

\* line 62: open(META_FILE, 'w') truncates the file
EncSaveOpen(p) ==
  /\ pc[p] = "save"
  /\ metaFile' = Torn
  /\ Goto(p, "dump")
  /\ UNCHANGED <<clock, srcFiles, encFiles, arg, data, stamp,
                 fileHash, metadata, progress, calls, writes, history>>

\* line 62 raises: the file is not touched
EncSaveOpenFails(p) ==
  /\ pc[p] = "save"
  /\ Goto(p, "failed")
  /\ UNCHANGED <<clock, srcFiles, encFiles, metaFile, arg, data,
                 stamp, fileHash, metadata, progress, calls, writes,
                 history>>

\* what this invocation has persisted
Persisted(p) ==
  [name |-> FileName(p), version |-> stamp[p],
   record |-> Get(Get(metadata[p], FileName(p)), stamp[p]),
   plaintext |-> data[p], password |-> arg[p].password]

\* line 63: json.dump writes the document
EncSaveDump(p) ==
  /\ pc[p] = "dump"
  /\ metaFile' = Document(metadata[p])
  /\ progress' = [progress EXCEPT ![p] = @ \cup {"saved"}]
  /\ history' = history \cup {Persisted(p)}
  /\ Goto(p, IF arg[p].shred THEN "shred" ELSE "done")
  /\ UNCHANGED <<clock, srcFiles, encFiles, arg, data, stamp,
                 fileHash, metadata, calls, writes>>

\* line 63, when another writer has written its document through its own
\* handle since line 62: json.dump writes from the start of the file, which
\* then holds this document followed by what is left of the other one; that
\* is no complete document when the other one was longer
EncSaveDumpClobbered(p) ==
  /\ pc[p] = "dump"
  /\ ~metaFile.torn
  /\ metaFile' = Torn
  /\ progress' = [progress EXCEPT ![p] = @ \cup {"saved"}]
  /\ history' = history \cup {Persisted(p)}
  /\ Goto(p, IF arg[p].shred THEN "shred" ELSE "done")
  /\ UNCHANGED <<clock, srcFiles, encFiles, arg, data, stamp,
                 fileHash, metadata, calls, writes>>

\* line 63 raises partway: the file holds no complete document
EncSaveDumpFails(p) ==
  /\ pc[p] = "dump"
  /\ metaFile' = Torn
  /\ Goto(p, "failed")
  /\ UNCHANGED <<clock, srcFiles, encFiles, arg, data, stamp,
                 fileHash, metadata, progress, calls, writes, history>>

\* shred_file(path): what the file can be afterwards.  getsize or open
\* raises: untouched; the write raises: empty; remove raises: random bytes
\* of the old length; otherwise the file is gone.  The exception is caught.
ShredFile(content) ==
  IF content.st = "absent" THEN {content}
  ELSE {content, File(<<>>), Absent}
         \cup {File(r) : r \in Urandom(Len(content.data))}

\* a variant in which a failure of the shred is not caught
EncShredRaising(p) ==
  /\ pc[p] = "shred"
  /\ \E after \in ShredFile(srcFiles[arg[p].path]) :
       /\ srcFiles' = [srcFiles EXCEPT ![arg[p].path] = after]
       /\ Goto(p, IF after = Absent THEN "done" ELSE "failed")
  /\ UNCHANGED <<clock, encFiles, metaFile, arg, data, stamp,
                 fileHash, metadata, progress, calls, writes, history>>

\* lines 106-109: the source is shredded and enc_file_path returned
EncShred(p) ==
  /\ pc[p] = "shred"
  /\ \E after \in ShredFile(srcFiles[arg[p].path]) :
       srcFiles' = [srcFiles EXCEPT ![arg[p].path] = after]
  /\ Goto(p, "done")
  /\ UNCHANGED <<clock, encFiles, metaFile, arg, data, stamp,
                 fileHash, metadata, progress, calls, writes, history>>

\* the caller takes the result (enc_file_path when pc is "done", the
\* exception when it is "failed"); the locals are dropped
EncReturn(p) ==
  /\ pc[p] \in {"done", "failed"}
  /\ Goto(p, "idle")
  /\ arg' = [arg EXCEPT ![p] = NoArg]
  /\ data' = [data EXCEPT ![p] = <<>>]
  /\ stamp' = [stamp EXCEPT ![p] = <<>>]
  /\ fileHash' = [fileHash EXCEPT ![p] = Sha256(<<>>)]
  /\ metadata' = [metadata EXCEPT ![p] = <<>>]
  /\ progress' = [progress EXCEPT ![p] = {}]
  /\ UNCHANGED <<clock, srcFiles, encFiles, metaFile, calls,
                 writes, history>>

(* --------------------------- environment ------------------------------- *)
\* a second passes
Tick ==
  /\ clock < StartClock + MaxTicks
  /\ clock' = clock + 1
  /\ Quiet /\ UNCHANGED dec
  /\ UNCHANGED <<srcFiles, encFiles, metaFile, pc, arg, data, stamp,
                 fileHash, metadata, progress, calls, writes, history>>

\* another actor writes a source file, or removes it
SourceWrite(path, content) ==
  /\ writes < MaxWrites
  /\ srcFiles[path] # content
  /\ writes' = writes + 1
  /\ Quiet /\ UNCHANGED dec
  /\ srcFiles' = [srcFiles EXCEPT ![path] = content]
  /\ UNCHANGED <<clock, encFiles, metaFile, pc, arg, data, stamp,
                 fileHash, metadata, progress, calls, history>>

(* --------------------------- decrypt_file ------------------------------ *)
\* no version given: None, or any falsy value such as the empty string
NoVersion == <<>>

\* a variant that takes the key inserted last
LatestVersionLastInserted(versions) == versions[Len(versions)][1]

\* sorted(metadata[file_name].keys())[-1]
LatestVersion(versions) ==
  LET sorted == Sorted(Keys(versions)) IN sorted[Len(sorted)]

\* an exception, raised with the given version selected (NoVersion: before
\* the selection)
Raised(kind, v) == [kind |-> kind, version |-> v, text |-> <<>>, wrote |-> FALSE]

\* a variant that accepts every hash
HashMatchesAlways(newHash, record) == TRUE

\* the hash comparison of lines 143-145
HashMatches(newHash, record) == newHash = record.sha256

\* decrypt_file(file_name, password, version, preview_only) on the persisted
\* state: the outcome (kind), the version it selected, the text it returned
\* or wrote, and whether it wrote the output file
DecryptFile(name, password, version, preview) ==
  IF metaFile.torn THEN Raised("corrupt", NoVersion)
  ELSE IF ~HasKey(metaFile.doc, name) THEN Raised("notfound", NoVersion)
  ELSE
    LET versions == Get(metaFile.doc, name)
        v == IF version = NoVersion THEN LatestVersion(versions) ELSE version
    IN
    IF ~HasKey(versions, v) THEN Raised("keyerror", v)
    ELSE
      LET record == Get(versions, v)
          content == encFiles[record.encrypted_file]
      IN
      IF content.st = "absent" THEN Raised("ioerror", v)
      ELSE IF ~FernetOpens(GenerateKey(password), content) THEN Raised("auth", v)
      ELSE IF preview
        THEN [kind |-> "preview", version |-> v, text |-> Decode(content.pt),
              wrote |-> FALSE]
      ELSE IF ~HashMatches(GetSha256(File(content.pt)), record)
        THEN [kind |-> "integrity", version |-> v, text |-> content.pt,
              wrote |-> TRUE]
      ELSE [kind |-> "path", version |-> v, text |-> content.pt, wrote |-> TRUE]

\* a call of decrypt_file by host p, which is not inside encrypt_file:
\* dec.text is the preview it returned, dec.out the output file
\* decrypted_<name> it wrote (which stays written when the hash comparison
\* raises)
Decrypt(p, name, password, version, preview) ==
  LET r == DecryptFile(name, password, version, preview) IN
  /\ Quiet
  /\ pc[p] = "idle"
  /\ dec' = [kind |-> r.kind, name |-> name, password |-> password,
             asked |-> version, version |-> r.version, preview |-> preview,
             text |-> IF r.wrote THEN <<>> ELSE r.text,
             out |-> IF r.wrote THEN File(r.text) ELSE Absent]
  /\ UNCHANGED <<clock, srcFiles, encFiles, metaFile, pc, arg, data, stamp,
                 fileHash, metadata, progress, calls, writes, history>>

\* the caller takes the result of decrypt_file
DecReturn ==
  /\ ~Quiet
  /\ dec' = NoDec
  /\ UNCHANGED <<clock, srcFiles, encFiles, metaFile, pc, arg, data, stamp,
                 fileHash, metadata, progress, calls, writes, history>>

(* ----------------------- find_file_in_metadata ------------------------- *)
\* (None, None)
NotFound == <<<<>>, <<>>>>

\* all (original_name, timestamp) pairs in iteration order
RECURSIVE Flatten(_)
Flatten(doc) ==
  IF doc = <<>> THEN <<>>
  ELSE LET name == Head(doc)[1]
           versions == Head(doc)[2]
       IN  [i \in 1 .. Len(versions) |-> <<name, versions[i][1], versions[i][2]>>]
             \o Flatten(Tail(doc))

\* the first record whose encrypted_file has that basename
FindFileInMetadata(doc, encFilename) ==
  LET all == Flatten(doc)
      hits == {i \in 1 .. Len(all) : Basename(all[i][3].encrypted_file) = encFilename}
  IN  IF hits = {} THEN NotFound
      ELSE LET first == CHOOSE i \in hits : \A j \in hits : i <= j
           IN  <<all[first][1], all[first][2]>>

(* --------------------------- specification ----------------------------- *)
\* the steps of encrypt_file in host p, its arguments drawn from the given
\* sets
Encrypt(p, paths, passwords, outs) ==
  \/ \E path \in paths, password \in passwords, out \in outs, shred \in BOOLEAN :
       \/ EncRead(p, path, password, out, shred)
       \/ EncReadFails(p, path, password, out, shred)
  \/ EncWrite(p)
  \/ EncHash(p)
  \/ EncHashFails(p)
  \/ EncLoad(p)
  \/ EncLoadFails(p)
  \/ EncSaveOpen(p)
  \/ EncSaveDump(p)
  \/ EncShred(p)
  \/ EncReturn(p)

\* the writes of encrypt_file in host p fail (disk full, permission denied,
\* the process is killed)
Faults(p) ==
  \/ EncWriteFails(p)
  \/ EncSaveOpenFails(p)
  \/ EncSaveDumpFails(p)

\* decrypt_file in host p, its arguments drawn from the given sets
Decrypts(p, passwords, versions, previews) ==
  \E name \in Names, password \in passwords, version \in versions,
     preview \in previews :
    Decrypt(p, name, password, version, preview)

\* One host, as the GUI of main.py is: one operation at a time, all files
\* encrypted into one folder and within one second of the wall clock; writes
\* can fail, and another actor writes and removes source files.
Next ==
  \/ Encrypt(1, SrcPaths, Passwords, {"o1"})
  \/ Faults(1)
  \/ Decrypts(1, Passwords, Stamps \cup {NoVersion}, BOOLEAN)
  \/ DecReturn
  \/ \E path \in SrcPaths, content \in {File(b) : b \in Plain} \cup {Absent} :
       SourceWrite(path, content)

Spec == Init /\ [][Next]_vars

\* Two hosts on the same vault and the same password, each encrypting into
\* a folder of its choice while the clock advances; host 1 also decrypts
\* the latest versions.
NextConc ==
  \/ \E p \in Procs : Encrypt(p, SrcPaths, {"w1"}, OutDirs)
  \/ \E p \in Procs : EncSaveDumpClobbered(p)
  \/ Decrypts(1, {"w1"}, {NoVersion}, {FALSE})
  \/ DecReturn
  \/ Tick

SpecConc == Init /\ [][NextConc]_vars

TypeOK ==
  /\ clock \in Clocks
  /\ metaFile.torn \in BOOLEAN
  /\ calls \in 0 .. MaxCalls
  /\ writes \in 0 .. MaxWrites

(* ------------------------------ claims --------------------------------- *)
\* the version records of a document, as <<original name, version, record>>
Records(doc) == {Flatten(doc)[i] : i \in 1 .. Len(Flatten(doc))}
Stored == IF metaFile.torn THEN {} ELSE Records(metaFile.doc)
AllIdle == \A p \in Procs : pc[p] = "idle"

\* C1: whenever no encrypt_file call is in progress, every version that an
\* encrypt_file call persisted for plaintext P under password W decrypts
\* (non-preview) with W to an output file holding exactly P.
C1_RoundTrip ==
  AllIdle =>
    \A h \in history :
      LET r == DecryptFile(h.name, h.password, h.version, FALSE)
      IN  r.kind = "path" /\ r.wrote /\ r.text = h.plaintext

\* C2: for every stored version whose ciphertext was made with password W1,
\* decrypt_file with any other password W2 ends in the authentication error,
\* in preview and non-preview mode, and returns or writes nothing; and a
\* decrypt_file call that did return or write something used the password
\* of the ciphertext.
C2_WrongKeyRejected ==
  /\ \A x \in Stored, w1 \in Passwords, preview \in BOOLEAN :
     \A w2 \in Passwords \ {w1} :
       LET token == encFiles[x[3].encrypted_file]
           r == DecryptFile(x[1], w2, x[2], preview)
       IN  token.st = "token" /\ token.key = GenerateKey(w1)
             => r.kind = "auth" /\ r.text = <<>> /\ ~r.wrote
  /\ dec.kind \in {"preview", "integrity", "path"} =>
       \E x \in Stored :
         /\ x[1] = dec.name /\ x[2] = dec.version
         /\ encFiles[x[3].encrypted_file].st = "token"
         /\ encFiles[x[3].encrypted_file].key = GenerateKey(dec.password)

C2_Witness ==
  /\ dec.kind = "auth"
  /\ \E x \in Stored :
       /\ x[1] = dec.name /\ x[2] = dec.version
       /\ encFiles[x[3].encrypted_file].st = "token"
       /\ encFiles[x[3].encrypted_file].key # GenerateKey(dec.password)

\* C3: non-preview decrypt_file returns the output path only if the digest of
\* the output it wrote equals the sha256 of the selected record, and when
\* the token authenticates but the digests differ it raises the integrity
\* error.
C3_IntegrityCheck ==
  /\ \A x \in Stored, w \in Passwords :
     \A asked \in {x[2], NoVersion} :
       LET r == DecryptFile(x[1], w, asked, FALSE)
           selected == Get(Get(metaFile.doc, x[1]), r.version)
           token == encFiles[selected.encrypted_file]
       IN  /\ r.kind = "path" =>
                r.wrote /\ GetSha256(File(r.text)) = selected.sha256
           /\ ( /\ r.kind \notin {"corrupt", "notfound", "keyerror", "ioerror"}
                /\ token.st = "token" /\ token.key = GenerateKey(w)
                /\ Sha256(token.pt) # selected.sha256 )
                => r.kind = "integrity"
  /\ dec.kind = "path" =>
       \E x \in Stored :
         /\ x[1] = dec.name /\ x[2] = dec.version
         /\ GetSha256(dec.out) = x[3].sha256

C3_Witness ==
  /\ dec.kind = "integrity"
  /\ \E x \in Stored :
       /\ x[1] = dec.name /\ x[2] = dec.version
       /\ encFiles[x[3].encrypted_file].key = GenerateKey(dec.password)
       /\ GetSha256(dec.out) # x[3].sha256

\* C4: for every original name in the metadata, decrypt_file called without
\* a version selects the version whose identifier is the greatest of that
\* name's identifiers in string order, whatever the insertion order.
C4_LatestVersion ==
  /\ ~metaFile.torn =>
       \A i \in 1 .. Len(metaFile.doc), w \in Passwords, preview \in BOOLEAN :
         LET name == metaFile.doc[i][1]
             versions == metaFile.doc[i][2]
             r == DecryptFile(name, w, NoVersion, preview)
         IN  /\ HasKey(versions, r.version)
             /\ \A j \in 1 .. Len(versions) :
                  versions[j][1] = r.version \/ StrLess(versions[j][1], r.version)
             /\ r = DecryptFile(name, w, r.version, preview)
  /\ (dec.kind # "none" /\ dec.asked = NoVersion /\ dec.kind \notin {"corrupt", "notfound"}) =>
       \A x \in Stored :
         x[1] = dec.name => x[2] = dec.version \/ StrLess(x[2], dec.version)

\* the latest version was inserted first
C4_Witness ==
  /\ dec.kind = "path" /\ dec.asked = NoVersion
  /\ \E i \in 1 .. Len(metaFile.doc) :
       /\ metaFile.doc[i][1] = dec.name
       /\ Len(metaFile.doc[i][2]) = 2
       /\ metaFile.doc[i][2][1][1] = dec.version
       /\ StrLess(metaFile.doc[i][2][2][1], dec.version)

\* C5: when two concurrent encrypt_file invocations with distinct version
\* identifiers have both completed, the persisted metadata holds the
\* version records of both.
C5_NoLostUpdate ==
  ( /\ pc[1] = "done" /\ pc[2] = "done"
    /\ <<FileName(1), stamp[1]>> # <<FileName(2), stamp[2]>> )
    => \A p \in Procs :
         \E x \in Stored : x[1] = FileName(p) /\ x[2] = stamp[p]

\* C6: at every point of an execution the persisted metadata is a complete
\* document.
C6_AtomicSave == ~metaFile.torn

\* C7: whenever no encrypt_file call is in progress, every version record
\* that was persisted is still stored under the same name and version
\* identifier, unchanged.
C7_RecordsImmutable ==
  AllIdle =>
    \A h \in history : <<h.name, h.version, h.record>> \in Stored

\* C8: in every metadata document, find_file_in_metadata on the basename of
\* a record's encrypted_file returns that record's original name and
\* version, no two records share an encrypted path or basename, and a
\* basename of no record gives (None, None).
C8_ReverseLookup ==
  ~metaFile.torn =>
    /\ \A x \in Stored :
         FindFileInMetadata(metaFile.doc, Basename(x[3].encrypted_file)) = <<x[1], x[2]>>
    /\ \A x \in Stored, y \in Stored :
         Basename(x[3].encrypted_file) = Basename(y[3].encrypted_file) => x = y
    /\ \A e \in EncPaths \cup {Join("o1", <<"x">>)} :
         (\A x \in Stored : Basename(x[3].encrypted_file) # Basename(e))
           => FindFileInMetadata(metaFile.doc, Basename(e)) = NotFound

\* a record's basename is also the basename of a ciphertext file in another
\* folder, which no record refers to, and the lookup returns the record
C8_Witness ==
  /\ ~metaFile.torn
  /\ \E x \in Stored, e \in EncPaths :
       /\ e # x[3].encrypted_file
       /\ Basename(e) = Basename(x[3].encrypted_file)
       /\ encFiles[e].st = "token"
       /\ FindFileInMetadata(metaFile.doc, Basename(e)) = <<x[1], x[2]>>
  /\ \E e \in EncPaths :
       FindFileInMetadata(metaFile.doc, Basename(e)) = NotFound

\* C9: the sha256 recorded for a version is the digest of the plaintext that
\* was encrypted into the version's ciphertext.
C9_HashOfEncrypted ==
  \A h \in history : h.record.sha256 = Sha256(h.plaintext)

\* C10: an encrypt_file invocation changes its source file only in its shred
\* step, with shred requested and after it wrote the ciphertext and saved
\* the record; an invocation that fails leaves the source as it was; the
\* shred step always ends with the encrypted path returned and changes
\* neither the metadata nor a ciphertext.
C10_ShredLast ==
  [][ \A p \in Procs :
        /\ (pc'[p] # pc[p] /\ srcFiles' # srcFiles) =>
             /\ pc[p] = "shred" /\ arg[p].shred
             /\ {"wrote", "saved"} \subseteq progress[p]
             /\ \A s \in SrcPaths \ {arg[p].path} : srcFiles'[s] = srcFiles[s]
        /\ (pc'[p] = "failed" /\ pc[p] # "failed") =>
             srcFiles' = srcFiles /\ pc[p] # "shred"
        /\ (pc[p] = "shred" /\ pc'[p] # pc[p]) =>
             /\ pc'[p] = "done"
             /\ metaFile' = metaFile /\ encFiles' = encFiles
             /\ history' = history
    ]_vars

\* the shred failed after it emptied the source; the call returned and the
\* record is stored
C10_Witness ==
  \E p \in Procs :
    /\ pc[p] = "done" /\ arg[p].shred
    /\ srcFiles[arg[p].path] = File(<<>>)
    /\ \E x \in Stored : x[1] = FileName(p) /\ x[2] = stamp[p]
====
